---- MODULE Spec2Model ----
(***************************************************************************)
(* Model of src/app.py ("Prof. AI: PDF to Audio Class").                   *)
(*                                                                         *)
(* A Python str is modelled as a sequence of one-character strings, so     *)
(* that the regular-expression and str operations of the source are        *)
(* computed character by character, as the re module computes them.        *)
(***************************************************************************)
EXTENDS Integers, Sequences, FiniteSets, TLC

VARIABLES
    text,       \* raw_text (app.py:140), or the argument given to a function
    lessons,    \* lessons (app.py:141), a sequence of lesson records
    cleaned,    \* successive results of safe_clean_text on text
    pc,         \* position of the script run
    i,          \* number of the lesson the loop of app.py:151 is at (1-based)
    attempts,   \* attempts[k]: synthesis calls made so far for lesson k
    inflight,   \* number of synthesis calls started and not yet returned
    lastEvent,  \* last thing done towards the service: call, wait or sleep
    delivered   \* what the page received, in order: audio players and errors

vars == <<text, lessons, cleaned, pc, i, attempts, inflight, lastEvent, delivered>>

----------------------------------------------------------------------------
(* Character classes of the regular expressions of app.py.                 *)

Digit == {"0","1","2","3","4","5","6","7","8","9"}

Lower == {"a","b","c","d","e","f","g","h","i","j","k","l","m","n","o","p","q",
          "r","s","t","u","v","w","x","y","z"}

Upper == {"A","B","C","D","E","F","G","H","I","J","K","L","M","N","O","P","Q",
          "R","S","T","U","V","W","X","Y","Z"}

\* \s of re, and the characters str.strip() removes
Whitespace == {" ", "\t", "\n", "\r"}

\* the complement of the class [^a-zA-Z0-9\s.,?!:;'\-] of app.py:39
AllowedChar ==
    Lower \cup Upper \cup Digit \cup Whitespace
          \cup {".", ",", "?", "!", ":", ";", "'", "-"}

----------------------------------------------------------------------------
(* String literals of app.py.                                              *)

STR_Q == <<"Q">>

STR_DOT == <<".">>

STR_EMPTY == <<>>

STR_EXPLANATION == <<"E","x","p","l","a","n","a","t","i","o","n",":">>

STR_ANSWER == <<"A","n","s","w","e","r",":">>

STR_THE_ANSWER_IS ==
    <<" ","T","h","e"," ","a","n","s","w","e","r"," ","i","s",":"," ">>

STR_QUESTION == <<"Q","u","e","s","t","i","o","n">>

STR_PAGE_OPEN == <<"-","-","-"," ","P","A","G","E"," ">>

STR_PAGE_CLOSE == <<" ","-","-","-">>

STR_OKAY ==
    <<"O","k","a","y",","," ","l","e","t","'","s"," ","l","o","o","k"," ",
    "a","t"," ">>

STR_DOT_SPACE == <<"."," ">>

STR_ASKS ==
    <<"T","h","e"," ","q","u","e","s","t","i","o","n"," ","a","s","k","s",
    ":"," ">>

STR_NOW ==
    <<" ","N","o","w",","," ","l","e","t","'","s"," ","u","n","d","e","r",
    "s","t","a","n","d"," ","t","h","e"," ","d","e","t","a","i","l","s"," ",
    "b","e","h","i","n","d"," ","t","h","i","s","."," ">>

STR_SPACE == <<" ">>

STR_SO ==
    <<" ","S","o",","," ","t","h","a","t"," ","i","s"," ","t","h","e"," ",
    "c","o","r","e"," ","c","o","n","c","e","p","t"," ","h","e","r","e",".",
    " ">>

STR_COVERS ==
    <<" ","T","h","a","t"," ","c","o","v","e","r","s"," ","t","h","e"," ",
    "c","o","m","p","l","e","t","e"," ","a","n","s","w","e","r"," ","f","o",
    "r"," ","t","h","i","s"," ","q","u","e","s","t","i","o","n","."," ">>

----------------------------------------------------------------------------
(* str and re primitives.                                                  *)

Min(S) == CHOOSE x \in S : \A y \in S : x <= y

\* the literal w stands in s at position p
HasAt(s, p, w) ==
    /\ p >= 1
    /\ p + Len(w) - 1 <= Len(s)
    /\ \A k \in 1..Len(w) : s[p + k - 1] = w[k]

\* w in s
Contains(s, w) == \E p \in 1..(Len(s) + 1) : HasAt(s, p, w)

\* s.startswith(w)
StartsWith(s, w) == HasAt(s, 1, w)

\* the number of characters the greedy \d+ takes at position p (0: no match)
DigitRun(s, p) ==
    CHOOSE n \in 0..Len(s) :
        /\ p + n - 1 <= Len(s)
        /\ \A k \in p..(p + n - 1) : s[k] \in Digit
        /\ (p + n > Len(s) \/ s[p + n] \notin Digit)

\* the length of the match of  pre \d+ post  at position p, 0 when there is
\* none (pre and post are literals; the greedy \d+ never has to give back,
\* since post never starts with a digit)
MatchLen(s, p, pre, post) ==
    IF ~HasAt(s, p, pre) THEN 0
    ELSE LET n == DigitRun(s, p + Len(pre))
         IN  IF n >= 1 /\ HasAt(s, p + Len(pre) + n, post)
             THEN Len(pre) + n + Len(post)
             ELSE 0

\* re.sub(pre \d+ post, '', s): the leftmost matches that do not overlap are
\* removed in one pass from position p on
RECURSIVE ReSubFrom(_, _, _, _)
ReSubFrom(s, p, pre, post) ==
    IF p > Len(s) THEN <<>>
    ELSE LET m == MatchLen(s, p, pre, post)
         IN  IF m > 0 THEN ReSubFrom(s, p + m, pre, post)
             ELSE <<s[p]>> \o ReSubFrom(s, p + 1, pre, post)

ReSub(s, pre, post) == ReSubFrom(s, 1, pre, post)

\* s.strip()
Strip(s) ==
    LET keep == {k \in 1..Len(s) : s[k] \notin Whitespace}
    IN  IF keep = {} THEN <<>>
        ELSE SubSeq(s, Min(keep), CHOOSE k \in keep : \A j \in keep : j <= k)

\* re.sub(r'\s+', ' ', s): each run of whitespace becomes one space
CollapseWhitespace(s) ==
    LET first(k) == s[k] \in Whitespace /\ (k = 1 \/ s[k - 1] \notin Whitespace)
        keep == {k \in 1..Len(s) : s[k] \notin Whitespace \/ first(k)}
        RECURSIVE build(_)
        build(k) ==
            IF k > Len(s) THEN <<>>
            ELSE IF k \notin keep THEN build(k + 1)
            ELSE <<IF s[k] \in Whitespace THEN " " ELSE s[k]>> \o build(k + 1)
    IN  build(1)

\* s.split(sep): the parts between the occurrences of sep, found left to
\* right without overlap, from position start on
RECURSIVE StrSplitFrom(_, _, _)
StrSplitFrom(s, start, sep) ==
    LET occ == {p \in start..Len(s) : HasAt(s, p, sep)}
    IN  IF occ = {} THEN <<SubSeq(s, start, Len(s))>>
        ELSE <<SubSeq(s, start, Min(occ) - 1)>>
                 \o StrSplitFrom(s, Min(occ) + Len(sep), sep)

StrSplit(s, sep) == StrSplitFrom(s, 1, sep)

----------------------------------------------------------------------------
(* safe_clean_text, app.py:20-44.                                          *)

\* app.py:29 reads  re.sub(r'\', '', text)  with the comment "Remove
\* citations like  or [12]": the pattern of the first citation form is not
\* in the file.  The specification names the form ("Some <2> text" cleans to
\* "Some text"): a bracketed number  <digits>.
RemoveCitationTags(s) == ReSub(s, <<"<">>, <<">">>)

\* app.py:30  re.sub(r'\[\d+\]', '', text)
RemoveCitationNumbers(s) == ReSub(s, <<"[">>, <<"]">>)

\* app.py:33  re.sub(r'--- PAGE \d+ ---', '', text)
RemovePageMarkers(s) == ReSub(s, STR_PAGE_OPEN, STR_PAGE_CLOSE)

\* app.py:39-40  re.sub(r"[^a-zA-Z0-9\s.,?!:;'\-]", "", text)
KeepAllowed(s) == SelectSeq(s, LAMBDA c : c \in AllowedChar)

\* NormalizeWhitespace without the collapse of app.py:43: only the strip
NormalizeWhitespace_StripOnly(s) == Strip(s)

\* app.py:43  re.sub(r'\s+', ' ', text).strip()
NormalizeWhitespace(s) == Strip(CollapseWhitespace(s))

safe_clean_text(s) ==
    IF s = <<>> THEN <<>>
    ELSE NormalizeWhitespace(
             KeepAllowed(
                 RemovePageMarkers(
                     RemoveCitationNumbers(
                         RemoveCitationTags(s)))))

----------------------------------------------------------------------------
(* create_professor_script, app.py:56-74.                                  *)

create_professor_script(label, main_text, explanation_text) ==
    LET intro == STR_OKAY \o label \o STR_DOT_SPACE
        asks  == STR_ASKS \o main_text \o STR_DOT_SPACE
    IN  IF explanation_text # <<>>
        THEN intro \o asks \o STR_NOW \o explanation_text \o STR_SPACE \o STR_SO
        ELSE intro \o asks \o STR_COVERS

----------------------------------------------------------------------------
(* parse_pdf_to_lessons, app.py:76-122.                                    *)

\* a question marker  Q\d+\.  starts at position p
IsMarkerAt(s, p) == MatchLen(s, p, STR_Q, STR_DOT) > 0

MarkerPositions(s) == {p \in 1..Len(s) : IsMarkerAt(s, p)}

\* app.py:82  re.split(r'(?=Q\d+\.)', text): the text is cut before every
\* marker (a cut at position 1 leaves an empty first chunk); the marker
\* stays at the head of the chunk that follows the cut
RECURSIVE ChunksFrom(_, _)
ChunksFrom(s, start) ==
    LET nxt == {p \in MarkerPositions(s) : p > start}
    IN  IF nxt = {} THEN <<SubSeq(s, start, Len(s))>>
        ELSE <<SubSeq(s, start, Min(nxt) - 1)>> \o ChunksFrom(s, Min(nxt))

SplitChunks(s) ==
    IF IsMarkerAt(s, 1) THEN <<STR_EMPTY>> \o ChunksFrom(s, 1)
    ELSE ChunksFrom(s, 1)

\* app.py:89  the chunk is processed unless  not clean_chunk.startswith("Q")
ChunkAccepted(clean_chunk) == StartsWith(clean_chunk, STR_Q)

\* app.py:93-94  re.search(r'(Q\d+)', clean_chunk), else "Question"
ExtractLabel(clean_chunk) ==
    LET hits == {p \in 1..Len(clean_chunk) :
                     MatchLen(clean_chunk, p, STR_Q, STR_EMPTY) > 0}
    IN  IF hits = {} THEN STR_QUESTION
        ELSE SubSeq(clean_chunk, Min(hits),
                    Min(hits) + MatchLen(clean_chunk, Min(hits), STR_Q, STR_EMPTY) - 1)

\* SplitParts with the two tests of app.py:97 and app.py:101 in the other
\* order: "Answer:" is looked for first
SplitParts_AnswerFirst(clean_chunk) ==
    IF Contains(clean_chunk, STR_ANSWER)
    THEN LET parts == StrSplit(clean_chunk, STR_ANSWER)
         IN  [q_and_a_part |-> parts[1] \o STR_THE_ANSWER_IS \o parts[2],
              explanation_part |-> STR_EMPTY]
    ELSE IF Contains(clean_chunk, STR_EXPLANATION)
    THEN LET parts == StrSplit(clean_chunk, STR_EXPLANATION)
         IN  [q_and_a_part |-> parts[1], explanation_part |-> parts[2]]
    ELSE [q_and_a_part |-> clean_chunk, explanation_part |-> STR_EMPTY]

\* app.py:97-107  the two parts of a chunk, before cleaning
SplitParts(clean_chunk) ==
    IF Contains(clean_chunk, STR_EXPLANATION)
    THEN LET parts == StrSplit(clean_chunk, STR_EXPLANATION)
         IN  [q_and_a_part |-> parts[1], explanation_part |-> parts[2]]
    ELSE IF Contains(clean_chunk, STR_ANSWER)
    THEN LET parts == StrSplit(clean_chunk, STR_ANSWER)
         IN  [q_and_a_part |-> parts[1] \o STR_THE_ANSWER_IS \o parts[2],
              explanation_part |-> STR_EMPTY]
    ELSE [q_and_a_part |-> clean_chunk, explanation_part |-> STR_EMPTY]

\* app.py:93-120  the lesson made of one accepted chunk.  clean_main and
\* clean_exp are the locals of app.py:110-111, the two texts handed to
\* create_professor_script; the record keeps them beside the three keys of
\* the dict of app.py:116-120 so that they can be observed.
MakeLesson(clean_chunk) ==
    LET label == ExtractLabel(clean_chunk)
        parts == SplitParts(clean_chunk)
        clean_main == safe_clean_text(parts.q_and_a_part)
        clean_exp == safe_clean_text(parts.explanation_part)
    IN  [label |-> label,
         display |-> clean_chunk,
         script |-> create_professor_script(label, clean_main, clean_exp),
         clean_main |-> clean_main,
         clean_exp |-> clean_exp]

\* app.py:86-120  the loop over the chunks, from chunk k on
RECURSIVE LessonsFrom(_, _)
LessonsFrom(chunks, k) ==
    IF k > Len(chunks) THEN <<>>
    ELSE LET clean_chunk == Strip(chunks[k])
         IN  IF ~ChunkAccepted(clean_chunk) THEN LessonsFrom(chunks, k + 1)
             ELSE <<MakeLesson(clean_chunk)>> \o LessonsFrom(chunks, k + 1)

parse_pdf_to_lessons(s) == LessonsFrom(SplitChunks(s), 1)

----------------------------------------------------------------------------
(* Inputs.                                                                 *)

\* the strings made of at most n pieces of P, one after the other
RECURSIVE PieceStrings(_, _)
PieceStrings(P, n) ==
    IF n = 0 THEN {<<>>}
    ELSE LET shorter == PieceStrings(P, n - 1)
         IN  shorter \cup {s \o p : s \in shorter, p \in P}

MaxDocPieces == 3

MaxSegPieces == 4

MaxCleanPieces == 4

\* documents of the whole run: a preamble that starts with Q, a question
\* with a body, a question without one
DocPieces ==
    { <<"Q","u","i","z"," ">>,
      <<"Q","1","."," ","a"," ">>,
      <<"Q","2",".">> }

Documents == PieceStrings(DocPieces, MaxDocPieces)

\* texts given to parse_pdf_to_lessons
SegPieces ==
    { <<"Q","1",".">>, <<"Q">>, <<"7">>, <<" ">>, <<"#","x">>,
      STR_ANSWER, STR_EXPLANATION }

\* the scenario of the specification, section 8
Scenario1 ==
    <<"I","n","t","r","o"," ","t","e","x","t"," ","Q","1","."," ","W","h",
    "a","t"," ","i","s"," ","X","?"," ","A","n","s","w","e","r",":"," ","X",
    " ","i","s"," ","Y","."," ","Q","2","."," ","W","h","a","t"," ","i","s",
    " ","Z","?"," ","E","x","p","l","a","n","a","t","i","o","n",":"," ","Z",
    " ","m","e","a","n","s"," ","W",".">>

SegInputs == PieceStrings(SegPieces, MaxSegPieces) \cup {Scenario1}

\* texts given to safe_clean_text
CleanPieces ==
    { STR_PAGE_OPEN, STR_PAGE_CLOSE, <<"1">>, <<"#">>, <<" ">>, <<"\n">>,
      <<"a">>, <<"[","1","]">>, <<"<","2",">">> }

CleanInputs == PieceStrings(CleanPieces, MaxCleanPieces)

----------------------------------------------------------------------------
(* The script run, app.py:138-190.                                         *)

\* app.py:126  stop_after_attempt(3)
MaxAttempts == 3

Idle ==
    /\ lessons = <<>>
    /\ cleaned = <<>>
    /\ i = 0
    /\ attempts = <<>>
    /\ inflight = 0
    /\ lastEvent = "none"
    /\ delivered = <<>>

\* app.py:18, 138  a file has been uploaded
Init ==
    /\ text \in Documents
    /\ pc = "uploaded"
    /\ Idle

\* app.py:139-144
Analyze ==
    /\ pc = "uploaded"
    /\ lessons' = parse_pdf_to_lessons(text)
    /\ pc' = "ready"
    /\ UNCHANGED <<text, cleaned, i, attempts, inflight, lastEvent, delivered>>

\* app.py:146-149  the button is pressed
StartClass ==
    /\ pc = "ready"
    /\ pc' = "loop"
    /\ i' = 0
    /\ attempts' = [k \in 1..Len(lessons) |-> 0]
    /\ UNCHANGED <<text, lessons, cleaned, inflight, lastEvent, delivered>>

\* app.py:151-167  the loop takes the next lesson and shows its header
NextLesson ==
    /\ pc = "loop"
    /\ i < Len(lessons)
    /\ i' = i + 1
    /\ pc' = "try"
    /\ UNCHANGED <<text, lessons, cleaned, attempts, inflight, lastEvent, delivered>>

\* app.py:189-190  the loop is over
Dismiss ==
    /\ pc = "loop"
    /\ i = Len(lessons)
    /\ pc' = "dismissed"
    /\ UNCHANGED <<text, lessons, cleaned, i, attempts, inflight, lastEvent, delivered>>

\* app.py:171, 126-135  one attempt of generate_safe_audio starts
CallSynth ==
    /\ pc = "try"
    /\ attempts' = [attempts EXCEPT ![i] = @ + 1]
    /\ inflight' = inflight + 1
    /\ lastEvent' = "call"
    /\ pc' = "calling"
    /\ UNCHANGED <<text, lessons, cleaned, i, delivered>>

\* app.py:135  communicate.save returns; asyncio.run (app.py:171) returns
SynthReturns ==
    /\ pc = "calling"
    /\ inflight' = inflight - 1
    /\ pc' = "play"
    /\ UNCHANGED <<text, lessons, cleaned, i, attempts, lastEvent, delivered>>

\* app.py:126, 135  communicate.save raises: the decorator waits and calls
\* again, or after the last attempt raises into the try of app.py:169
SynthRaises ==
    /\ pc = "calling"
    /\ inflight' = inflight - 1
    /\ pc' = IF attempts[i] >= MaxAttempts THEN "except" ELSE "wait"
    /\ UNCHANGED <<text, lessons, cleaned, i, attempts, lastEvent, delivered>>

\* app.py:126  wait_fixed(5) between two attempts
RetryWait ==
    /\ pc = "wait"
    /\ lastEvent' = "wait"
    /\ pc' = "try"
    /\ UNCHANGED <<text, lessons, cleaned, i, attempts, inflight, delivered>>

\* app.py:174-179  the audio is read, given to the page, and the file removed
\* (reading and removing the file that save has just written do not fail)
PlayAudio ==
    /\ pc = "play"
    /\ delivered' = Append(delivered,
                           [lesson |-> i, label |-> lessons[i].label, kind |-> "audio"])
    /\ pc' = "sleep"
    /\ UNCHANGED <<text, lessons, cleaned, i, attempts, inflight, lastEvent>>

\* app.py:182, 187  time.sleep(2.0), the last statement of the try
SafetyDelay ==
    /\ pc = "sleep"
    /\ lastEvent' = "sleep"
    /\ pc' = "loop"
    /\ UNCHANGED <<text, lessons, cleaned, i, attempts, inflight, delivered>>

\* ReportError with the exception leaving the loop instead of being caught
ReportError_Uncaught ==
    /\ pc = "except"
    /\ pc' = "crashed"
    /\ UNCHANGED <<text, lessons, cleaned, i, attempts, inflight, lastEvent, delivered>>

\* ReportError with the exception swallowed: nothing is shown for the lesson
ReportError_Silent ==
    /\ pc = "except"
    /\ pc' = "loop"
    /\ UNCHANGED <<text, lessons, cleaned, i, attempts, inflight, lastEvent, delivered>>

\* app.py:184-187  except Exception: st.error, and the loop goes on
ReportError ==
    /\ pc = "except"
    /\ delivered' = Append(delivered,
                           [lesson |-> i, label |-> lessons[i].label, kind |-> "error"])
    /\ pc' = "loop"
    /\ UNCHANGED <<text, lessons, cleaned, i, attempts, inflight, lastEvent>>

\* the steps of the loop of app.py:151-190, which the script takes by itself
BatchStep ==
    \/ NextLesson
    \/ Dismiss
    \/ CallSynth
    \/ SynthReturns
    \/ SynthRaises
    \/ RetryWait
    \/ PlayAudio
    \/ SafetyDelay
    \/ ReportError

Next ==
    \/ Analyze
    \/ StartClass
    \/ BatchStep

Spec == Init /\ [][Next]_vars

\* once the button is pressed the script runs on: no step of the loop waits
\* for the user, and every call to the service returns or raises
FairSpec == Init /\ [][Next]_vars /\ WF_vars(BatchStep)

----------------------------------------------------------------------------
(* parse_pdf_to_lessons on its own.                                        *)

SegInit ==
    /\ text \in SegInputs
    /\ pc = "uploaded"
    /\ Idle

SegNext == Analyze

SegSpec == SegInit /\ [][SegNext]_vars

----------------------------------------------------------------------------
(* safe_clean_text on its own, applied once and then to its own result.    *)

CleanInit ==
    /\ text \in CleanInputs
    /\ pc = "clean0"
    /\ Idle

CleanOnce ==
    /\ pc = "clean0"
    /\ cleaned' = <<safe_clean_text(text)>>
    /\ pc' = "clean1"
    /\ UNCHANGED <<text, lessons, i, attempts, inflight, lastEvent, delivered>>

CleanAgain ==
    /\ pc = "clean1"
    /\ cleaned' = Append(cleaned, safe_clean_text(cleaned[1]))
    /\ pc' = "clean2"
    /\ UNCHANGED <<text, lessons, i, attempts, inflight, lastEvent, delivered>>

CleanNext ==
    \/ CleanOnce
    \/ CleanAgain

CleanSpec == CleanInit /\ [][CleanNext]_vars

----------------------------------------------------------------------------
(* Properties of the batch loop.                                           *)

\* C1: whatever the outcome of the lesson before, the first synthesis call
\* of a lesson that is not the first is made only after a delay (the sleep
\* of app.py:182 or a wait of the decorator) has followed the last call made
\* for the lesson before.  Stated on the state in which that first call is
\* about to be made.
C1_PauseBetweenLessons ==
    (pc = "try" /\ i > 1 /\ attempts[i] = 0) => lastEvent \in {"sleep", "wait"}

\* what holds of the loop in every state, for C2
C2_Safety ==
    /\ \A k \in 1..Len(attempts) : attempts[k] <= MaxAttempts
    /\ pc = "except" => attempts[i] = MaxAttempts
    /\ \A k \in 1..Len(delivered) :
           /\ delivered[k].lesson = k
           /\ delivered[k].label = lessons[k].label
           /\ delivered[k].kind \in {"audio", "error"}
           /\ delivered[k].kind = "error" => attempts[k] = MaxAttempts
           /\ delivered[k].kind = "audio" => attempts[k] \in 1..MaxAttempts
    /\ pc \in {"loop", "dismissed"} => Len(delivered) = i
    /\ pc = "dismissed" => Len(delivered) = Len(lessons)

\* C2: no lesson gets more than 3 synthesis calls; a lesson whose calls have
\* all failed is reported as one error under its own label; and whatever
\* calls fail, a batch that has started reaches its end, with exactly one
\* outcome (audio or error) for every lesson.
C2_FailureNeverFatal ==
    /\ []C2_Safety
    /\ (pc = "loop") ~> (pc = "dismissed")

\* a batch in which the first lesson failed three times and was reported has
\* gone on to call the service for the second lesson
C2_Witness ==
    /\ pc = "calling"
    /\ i = 2
    /\ delivered = <<[lesson |-> 1, label |-> lessons[1].label, kind |-> "error"]>>

\* C3: at most one synthesis call is in flight; while the service is being
\* called (or waited for) for lesson i, every lesson before i has had its
\* outcome delivered to the page and no later one has; and the outcomes are
\* delivered in the order of the lessons.
C3_Sequential ==
    /\ inflight <= 1
    /\ inflight = 1 <=> pc = "calling"
    /\ pc \in {"try", "calling", "wait", "play", "except"} => Len(delivered) = i - 1
    /\ \A k \in 1..Len(delivered) :
           /\ delivered[k].lesson = k
           /\ delivered[k].label = lessons[k].label

\* the third lesson is being synthesized after an error and an audio
C3_Witness ==
    /\ pc = "calling"
    /\ i = 3
    /\ Len(delivered) = 2
    /\ delivered[1].kind = "error"
    /\ delivered[2].kind = "audio"

----------------------------------------------------------------------------
(* Properties of parse_pdf_to_lessons and safe_clean_text.                 *)

\* the position of the first occurrence of w in s (w occurs in s)
FirstIndex(s, w) == Min({p \in 1..Len(s) : HasAt(s, p, w)})

\* the text before, and after, the first occurrence of w in s
Before(s, w) == SubSeq(s, 1, FirstIndex(s, w) - 1)

After(s, w) == SubSeq(s, FirstIndex(s, w) + Len(w), Len(s))

\* the labels of the question markers of s, in the order of the text
RECURSIVE MarkerLabelsFrom(_, _)
MarkerLabelsFrom(s, start) ==
    LET nxt == {p \in MarkerPositions(s) : p >= start}
    IN  IF nxt = {} THEN <<>>
        ELSE <<SubSeq(s, Min(nxt),
                      Min(nxt) + MatchLen(s, Min(nxt), STR_Q, STR_DOT) - 2)>>
                 \o MarkerLabelsFrom(s, Min(nxt) + 1)

MarkerLabels(s) == MarkerLabelsFrom(s, 1)

\* a is b with some of its elements left out
RECURSIVE IsSubsequence(_, _)
IsSubsequence(a, b) ==
    IF a = <<>> THEN TRUE
    ELSE IF b = <<>> THEN FALSE
    ELSE IF Head(a) = Head(b) THEN IsSubsequence(Tail(a), Tail(b))
    ELSE IsSubsequence(a, Tail(b))

LessonLabels == [k \in 1..Len(lessons) |-> lessons[k].label]

\* the connective of app.py:103 as it reads once cleaned
STR_CONNECTIVE == <<"T","h","e"," ","a","n","s","w","e","r"," ","i","s",":">>

\* the chunk is a question marker and nothing else
IsBareMarker(chunk) ==
    /\ chunk # <<>>
    /\ MatchLen(chunk, 1, STR_Q, STR_DOT) = Len(chunk)

\* C4: a text with N question markers gives at most N lessons; no lesson
\* has the placeholder label "Question"; every lesson's label is the marker
\* its chunk starts with; and the lessons come in the order of the markers
\* in the text.
C4_MarkersBoundLessons ==
    (pc = "ready" /\ MarkerPositions(text) # {}) =>
        /\ Len(lessons) <= Cardinality(MarkerPositions(text))
        /\ \A k \in 1..Len(lessons) :
               /\ lessons[k].label # STR_QUESTION
               /\ StartsWith(lessons[k].display, lessons[k].label \o STR_DOT)
        /\ IsSubsequence(LessonLabels, MarkerLabels(text))

\* C5: a text without any question marker gives no lesson.
C5_NoMarkerNoLesson ==
    (pc = "ready" /\ MarkerPositions(text) = {}) => lessons = <<>>

\* C6: safe_clean_text applied to its own result gives that result again.
C6_CleanIdempotent ==
    pc = "clean2" => cleaned[2] = cleaned[1]

\* C7: a chunk below the minimum length, such as a chunk that is only a
\* marker directly followed by the next marker, gives no lesson.
C7_ShortChunkDropped ==
    pc = "ready" => \A k \in 1..Len(lessons) : ~IsBareMarker(lessons[k].display)

Q1 == <<"Q","1">>

Q2 == <<"Q","2">>

\* C8, as the code has it: the scenario text gives exactly two lessons, in
\* order: Q1, whose question/answer text is "Q1. What is X? The answer is:
\* X is Y." with an empty explanation, and Q2, whose question/answer text
\* is "Q2. What is Z?" with the explanation "Z means W."; the
\* question/answer text handed to create_professor_script starts with the
\* marker.
C8_ScenarioWithMarker ==
    (pc = "ready" /\ text = Scenario1) =>
        /\ Len(lessons) = 2
        /\ lessons[1].label = Q1
        /\ lessons[1].clean_main =
               <<"Q","1","."," ","W","h","a","t"," ","i","s"," ","X","?"," ",
                 "T","h","e"," ","a","n","s","w","e","r"," ","i","s",":"," ",
                 "X"," ","i","s"," ","Y",".">>
        /\ lessons[1].clean_exp = <<>>
        /\ lessons[2].label = Q2
        /\ lessons[2].clean_main =
               <<"Q","2","."," ","W","h","a","t"," ","i","s"," ","Z","?">>
        /\ lessons[2].clean_exp = <<"Z"," ","m","e","a","n","s"," ","W",".">>

\* the scenario text has been segmented
C8_Witness ==
    /\ pc = "ready"
    /\ text = Scenario1
    /\ Len(lessons) = 2

\* C8 as claimed: the same two lessons, with question/answer texts "What is
\* X? The answer is: X is Y." and "What is Z?", without the marker.
C8_ScenarioAsClaimed ==
    (pc = "ready" /\ text = Scenario1) =>
        /\ Len(lessons) = 2
        /\ lessons[1].label = Q1
        /\ lessons[1].clean_main =
               <<"W","h","a","t"," ","i","s"," ","X","?"," ","T","h","e"," ",
                 "a","n","s","w","e","r"," ","i","s",":"," ","X"," ","i","s",
                 " ","Y",".">>
        /\ lessons[1].clean_exp = <<>>
        /\ lessons[2].label = Q2
        /\ lessons[2].clean_main = <<"W","h","a","t"," ","i","s"," ","Z","?">>
        /\ lessons[2].clean_exp = <<"Z"," ","m","e","a","n","s"," ","W",".">>

\* C9: a chunk that holds both "Answer:" and "Explanation:" is split at
\* "Explanation:" only: its question/answer text is the cleaned text before
\* the first "Explanation:", its explanation is the cleaned text that
\* follows it (up to a further "Explanation:"), the connective "The answer
\* is:" is not put in, and an "Answer:" that stands before "Explanation:"
\* is found, whole, in the question/answer text.
C9_ExplanationFirst ==
    pc = "ready" =>
        \A k \in 1..Len(lessons) :
            LET d == lessons[k].display
            IN  (Contains(d, STR_EXPLANATION) /\ Contains(d, STR_ANSWER)) =>
                    /\ lessons[k].clean_main =
                           safe_clean_text(Before(d, STR_EXPLANATION))
                    /\ lessons[k].clean_exp =
                           safe_clean_text(
                               StrSplit(After(d, STR_EXPLANATION), STR_EXPLANATION)[1])
                    /\ ~Contains(lessons[k].clean_main, STR_CONNECTIVE)
                    /\ FirstIndex(d, STR_ANSWER) < FirstIndex(d, STR_EXPLANATION)
                           => Contains(lessons[k].clean_main, STR_ANSWER)

\* a lesson whose chunk has "Answer:" before "Explanation:"
C9_Witness ==
    /\ pc = "ready"
    /\ \E k \in 1..Len(lessons) :
           LET d == lessons[k].display
           IN  /\ Contains(d, STR_EXPLANATION)
               /\ Contains(d, STR_ANSWER)
               /\ FirstIndex(d, STR_ANSWER) < FirstIndex(d, STR_EXPLANATION)
               /\ Contains(lessons[k].clean_main, STR_ANSWER)

\* C10: a chunk is split at the first occurrence of its marker phrase and
\* none of its text is lost: all that stands before the first occurrence
\* goes to the question/answer text, and all that stands after it, later
\* occurrences of the phrase included, goes to the explanation (for
\* "Answer:", behind the connective).
C10_NoTextLost ==
    pc = "ready" =>
        \A k \in 1..Len(lessons) :
            LET d == lessons[k].display
            IN  /\ Contains(d, STR_EXPLANATION) =>
                       /\ lessons[k].clean_main =
                              safe_clean_text(Before(d, STR_EXPLANATION))
                       /\ lessons[k].clean_exp =
                              safe_clean_text(After(d, STR_EXPLANATION))
                /\ (~Contains(d, STR_EXPLANATION) /\ Contains(d, STR_ANSWER)) =>
                       /\ lessons[k].clean_main =
                              safe_clean_text(Before(d, STR_ANSWER)
                                                  \o STR_THE_ANSWER_IS
                                                  \o After(d, STR_ANSWER))
                       /\ lessons[k].clean_exp = <<>>

====
